---- MODULE Spec2Model ----
(***************************************************************************)
(* Model of cell_census_builder/build_state.py: the journaled build state  *)
(* (CensusBuildState over MutableNamespace over Namespace) and its YAML    *)
(* log, the build configuration (CensusBuildConfig) and the derived paths  *)
(* of CensusBuildArgs.                                                     *)
(*                                                                         *)
(* Python objects are written as their Python literals: the string 'a' is  *)
(* "'a'", the integer 1 is "1", the string '1' is "'1'", None is "None".   *)
(* YAML text is written as the scalar text PyYAML emits: the string 'a' is *)
(* the plain scalar a, the string '1' is the quoted scalar '1', None is    *)
(* null.                                                                   *)
(***************************************************************************)
EXTENDS Integers, Sequences, FiniteSets, TLC

\* Largest number of records the log file grows to.
MaxLog == 2

VARIABLES
    _state,      \* Namespace._state: dict, key literal -> value literal
    dirty_keys,  \* CensusBuildState.__dirty_keys: set of key literals
    log,         \* content of the state log file: sequence of YAML records
    exists,      \* whether the state log file exists on disk
    last,        \* the last call made on the state and how it ended
    defaults,    \* CensusBuildConfig.defaults: the dict shared by the class
    config,      \* _state of the CensusBuildConfig held by CensusBuildArgs
    call         \* the last call made on the config or the build args

\* The variables of the build state and its log.
svars == <<_state, dirty_keys, log, exists, last>>

\* The variables of the build configuration.
cvars == <<defaults, config, call>>

vars == <<_state, dirty_keys, log, exists, last, defaults, config, call>>

\* ---------------------------------------------------------------- values

\* Python objects that are instances of str.
PyStr == {"'a'", "'b'", "'self'", "'1'", "'t'", "'x'", "'2023-05-01'",
          "'verbose'", "'consolidate'", "'build_tag'", "'manifest'", "'extra'"}

\* Keys handed to __setitem__: three strings and the integer 7.
Keys == {"'a'", "'b'", "'self'", "7"}

\* Values handed to __setitem__: null, a boolean, an integer, a string.
Values == {"None", "True", "1", "'1'"}

\* The calls of __setitem__ made: every value under 'a', the integer 1 under
\* 'b' and 'self', None and 1 under the integer key.
SetInputs ==
    ({"'a'"} \X Values) \cup ({"'b'", "'self'"} \X {"1"}) \cup ({"7"} \X {"None", "1"})

\* isinstance(key, str)
isinstance_str(key) == key \in PyStr

\* Python ==: equal objects, and bool is an int (True == 1).
PyEq(x, y) == \/ x = y
              \/ {x, y} = {"True", "1"}

EmptyDict == [k \in {} |-> "None"]

\* dict.get(key): the stored value, None when the key is absent.
dict_get(d, key) == IF key \in DOMAIN d THEN d[key] ELSE "None"

\* d[key] = value
dict_set(d, key, value) ==
    [k \in DOMAIN d \cup {key} |-> IF k = key THEN value ELSE d[k]]

\* The fold step keeping the record alone: acc = r.
dict_update_replace(acc, r) == r

\* acc.update(r) or acc
dict_update(acc, r) ==
    [k \in DOMAIN acc \cup DOMAIN r |-> IF k \in DOMAIN r THEN r[k] ELSE acc[k]]

\* ------------------------------------------------------------------ YAML

\* yaml.dump emitting every string as a plain scalar, unquoted.
yaml_dump_scalar_plain(obj) ==
    CASE obj = "None"   -> "null"
      [] obj = "True"   -> "true"
      [] obj = "1"      -> "1"
      [] obj = "'1'"    -> "1"
      [] obj = "'a'"    -> "a"
      [] obj = "'b'"    -> "b"
      [] obj = "'self'" -> "self"

\* yaml.dump of a scalar: strings that would resolve to another type are
\* quoted, the others are plain; None is null, True is true.
yaml_dump_scalar(obj) ==
    CASE obj = "None"   -> "null"
      [] obj = "True"   -> "true"
      [] obj = "1"      -> "1"
      [] obj = "'1'"    -> "'1'"
      [] obj = "'a'"    -> "a"
      [] obj = "'b'"    -> "b"
      [] obj = "'self'" -> "self"

\* yaml.safe_load of a scalar: the implicit resolver types plain scalars,
\* quoted scalars are strings.
yaml_load_scalar(text) ==
    CASE text = "null" -> "None"
      [] text = "true" -> "True"
      [] text = "1"    -> "1"
      [] text = "'1'"  -> "'1'"
      [] text = "a"    -> "'a'"
      [] text = "b"    -> "'b'"
      [] text = "self" -> "'self'"
      [] text = "2"    -> "2"
      [] text = "t"    -> "'t'"
      [] text = "x"    -> "'x'"
      [] text = "2023-01-01" -> "datetime.date(2023, 1, 1)"
      [] text = "verbose"    -> "'verbose'"
      [] text = "build_tag"  -> "'build_tag'"
      [] text = "extra"      -> "'extra'"

\* yaml.dump(dirty): one "key: value" line per item of the dict.
yaml_dump(d) ==
    LET lines == {yaml_dump_scalar(k) : k \in DOMAIN d}
    IN  [t \in lines |->
            yaml_dump_scalar(d[CHOOSE k \in DOMAIN d : yaml_dump_scalar(k) = t])]

\* One document of yaml.safe_load_all: the mapping of a record.
yaml_load(rec) ==
    LET ks == {yaml_load_scalar(t) : t \in DOMAIN rec}
    IN  [k \in ks |->
            yaml_load_scalar(rec[CHOOSE t \in DOMAIN rec : yaml_load_scalar(t) = k])]

\* list(yaml.safe_load_all(state_log))
yaml_safe_load_all(file) == [i \in 1..Len(file) |-> yaml_load(file[i])]

\* functools.reduce(lambda acc, r: acc.update(r) or acc, documents, {})
RECURSIVE reduce_update(_, _)
reduce_update(documents, acc) ==
    IF documents = <<>> THEN acc
    ELSE reduce_update(Tail(documents), dict_update(acc, Head(documents)))

\* ---------------------------------------------------------- configuration

\* CENSUS_CONFIG_DEFAULTS, four of its keys: an integer, a boolean, the
\* build tag (the ISO date of the day, a string) and a None.
CENSUS_CONFIG_DEFAULTS ==
    [k \in {"'verbose'", "'consolidate'", "'build_tag'", "'manifest'"} |->
        CASE k = "'verbose'"     -> "1"
          [] k = "'consolidate'" -> "True"
          [] k = "'build_tag'"   -> "'2023-05-01'"
          [] k = "'manifest'"    -> "None"]

\* CensusBuildArgs.working_dir: PosixPath('/w'), as its segments.
working_dir == <<"'/w'">>

\* The YAML scalars a config document gives to each of its keys.
DocValues(t) ==
    CASE t = "verbose"   -> {"2"}
      [] t = "build_tag" -> {"t", "1", "2023-01-01"}
      [] t = "extra"     -> {"x"}
      [] t = "self"      -> {"1"}

Doc(kind, items) == [kind |-> kind, items |-> items]

\* The config documents loaded: the empty document, mappings over verbose,
\* build_tag and extra, the mapping {self: 1}, a sequence and a scalar.
ConfigDocs ==
    LET mappings(ks) == {f \in [ks -> {"2", "t", "1", "2023-01-01", "x"}] :
                            \A t \in ks : f[t] \in DocValues(t)}
    IN  {Doc("mapping", f) :
            f \in UNION {mappings(ks) : ks \in SUBSET {"verbose", "build_tag", "extra"}}}
        \cup {Doc("mapping", [t \in {"self"} |-> "1"])}
        \cup {Doc("empty", EmptyDict), Doc("sequence", EmptyDict),
              Doc("scalar", EmptyDict)}

\* yaml.safe_load(f): None for the empty document, a dict for a mapping, a
\* list for a sequence, an int for the scalar.
yaml_safe_load(doc) ==
    CASE doc.kind = "empty"    -> [type |-> "NoneType", items |-> EmptyDict]
      [] doc.kind = "mapping"  -> [type |-> "dict", items |-> yaml_load(doc.items)]
      [] doc.kind = "sequence" -> [type |-> "list", items |-> EmptyDict]
      [] doc.kind = "scalar"   -> [type |-> "int", items |-> EmptyDict]

CfgCall(op, doc, res, path, before) ==
    [op |-> op, doc |-> doc, res |-> res, path |-> path, before |-> before]

\* CensusBuildConfig(): the defaults, and no call made yet.
ConfigInit ==
    /\ defaults = CENSUS_CONFIG_DEFAULTS
    /\ config = CENSUS_CONFIG_DEFAULTS
    /\ call = CfgCall("init", Doc("empty", EmptyDict), "ok", <<>>,
                      CENSUS_CONFIG_DEFAULTS)

\* CensusBuildConfig.load updating the shared defaults: no copy() made.
ConfigLoad_nocopy(doc) ==
    LET loaded == yaml_safe_load(doc)
        user_config == IF loaded.type = "NoneType" THEN EmptyDict
                       ELSE loaded.items
    IN  /\ UNCHANGED svars
        /\ IF loaded.type \notin {"NoneType", "dict"}
              \/ "'self'" \in DOMAIN user_config
           THEN /\ call' = CfgCall("load", doc, "TypeError", <<>>, config)
                /\ UNCHANGED <<defaults, config>>
           ELSE /\ defaults' = dict_update(defaults, user_config)
                /\ config' = dict_update(defaults, user_config)
                /\ call' = CfgCall("load", doc, "ok", <<>>, config)

\* CensusBuildConfig.load taking a document that is no mapping as empty.
ConfigLoad_lenient(doc) ==
    LET loaded == yaml_safe_load(doc)
        user_config == IF loaded.type # "dict" THEN EmptyDict
                       ELSE loaded.items
    IN  /\ UNCHANGED svars
        /\ IF "'self'" \in DOMAIN user_config
           THEN /\ call' = CfgCall("load", doc, "TypeError", <<>>, config)
                /\ UNCHANGED <<defaults, config>>
           ELSE /\ config' = dict_update(defaults, user_config)
                /\ call' = CfgCall("load", doc, "ok", <<>>, config)
                /\ UNCHANGED defaults

\* CensusBuildConfig.load and CensusBuildConfig.__init__: the loaded config
\* replaces the config in use.
ConfigLoad(doc) ==
    LET loaded == yaml_safe_load(doc)
        user_config == IF loaded.type = "NoneType" THEN EmptyDict
                       ELSE loaded.items
    IN  /\ UNCHANGED svars
        /\ IF loaded.type \notin {"NoneType", "dict"}
           THEN /\ call' = CfgCall("load", doc, "TypeError", <<>>, config)
                /\ UNCHANGED <<defaults, config>>
           ELSE IF "'self'" \in DOMAIN user_config
           THEN /\ call' = CfgCall("load", doc, "TypeError", <<>>, config)
                /\ UNCHANGED <<defaults, config>>
           ELSE /\ config' = dict_update(defaults, user_config)
                /\ call' = CfgCall("load", doc, "ok", <<>>, config)
                /\ UNCHANGED defaults

\* build_tag returning str(build_tag) for a tag that is no string.
build_tag_nocheck == <<"ok", config["'build_tag'"]>>

\* CensusBuildArgs.build_tag: the tag, or TypeError.
build_tag ==
    IF ~isinstance_str(config["'build_tag'"]) THEN <<"TypeError", "None">>
    ELSE <<"ok", config["'build_tag'"]>>

\* PosixPath / segment, for a relative segment of one part.
truediv(path, segment) == Append(path, segment)

\* CensusBuildArgs.soma_path
SomaPath ==
    /\ call' = IF build_tag[1] # "ok"
               THEN CfgCall("soma_path", call.doc, build_tag[1], <<>>, config)
               ELSE CfgCall("soma_path", call.doc, "ok",
                            truediv(truediv(working_dir, build_tag[2]), "'soma'"),
                            config)
    /\ UNCHANGED <<defaults, config>>
    /\ UNCHANGED svars

\* CensusBuildArgs.h5ads_path
H5adsPath ==
    /\ call' = IF build_tag[1] # "ok"
               THEN CfgCall("h5ads_path", call.doc, build_tag[1], <<>>, config)
               ELSE CfgCall("h5ads_path", call.doc, "ok",
                            truediv(truediv(working_dir, build_tag[2]), "'h5ads'"),
                            config)
    /\ UNCHANGED <<defaults, config>>
    /\ UNCHANGED svars

\* ------------------------------------------------------------ operations

Call(op, key, value, res, io) ==
    [op |-> op, key |-> key, val |-> value, res |-> res, io |-> io]

\* Namespace.__getitem__: the value, or KeyError.
getitem(key) ==
    IF key \in DOMAIN _state THEN <<"ok", _state[key]>>
    ELSE <<"KeyError", "None">>

\* __init__ starting with no dirty key.
Init_clean ==
    /\ _state \in {EmptyDict, [k \in {"'a'"} |-> "1"]}
    /\ dirty_keys = {}
    /\ log = <<>>
    /\ exists \in BOOLEAN
    /\ last = Call("init", "None", "None", "ok", "none")
    /\ ConfigInit

\* CensusBuildState.__init__(**kwargs): every initial key is dirty.
Init ==
    /\ _state \in {EmptyDict, [k \in {"'a'"} |-> "1"]}
    /\ dirty_keys = DOMAIN _state
    /\ log = <<>>
    /\ exists \in BOOLEAN
    /\ last = Call("init", "None", "None", "ok", "none")
    /\ ConfigInit

\* __setitem__ without the comparison with the stored value.
SetItem_nocheck(key, value) ==
    /\ UNCHANGED cvars
    /\ IF ~isinstance_str(key)
       THEN /\ last' = Call("set", key, value, "TypeError", "none")
            /\ UNCHANGED <<_state, dirty_keys, log, exists>>
       ELSE /\ _state' = dict_set(_state, key, value)
            /\ dirty_keys' = dirty_keys \cup {key}
            /\ last' = Call("set", key, value, "ok", "none")
            /\ UNCHANGED <<log, exists>>

\* __setitem__ adding the key to the dirty keys before the call of
\* MutableNamespace.__setitem__ that checks it.
SetItem_dirtyfirst(key, value) ==
    /\ UNCHANGED cvars
    /\ IF PyEq(dict_get(_state, key), value)
       THEN /\ last' = Call("set", key, value, "ok", "none")
            /\ UNCHANGED <<_state, dirty_keys, log, exists>>
       ELSE IF ~isinstance_str(key)
       THEN /\ dirty_keys' = dirty_keys \cup {key}
            /\ last' = Call("set", key, value, "TypeError", "none")
            /\ UNCHANGED <<_state, log, exists>>
       ELSE /\ _state' = dict_set(_state, key, value)
            /\ dirty_keys' = dirty_keys \cup {key}
            /\ last' = Call("set", key, value, "ok", "none")
            /\ UNCHANGED <<log, exists>>

\* __setitem__ taking a key back out of the dirty keys when the value written
\* is the one the log holds for it.
SetItem_bycompare(key, value) ==
    LET committed == reduce_update(yaml_safe_load_all(log), EmptyDict)
    IN  /\ UNCHANGED cvars
        /\ IF PyEq(dict_get(_state, key), value)
           THEN /\ last' = Call("set", key, value, "ok", "none")
                /\ UNCHANGED <<_state, dirty_keys, log, exists>>
           ELSE IF ~isinstance_str(key)
           THEN /\ last' = Call("set", key, value, "TypeError", "none")
                /\ UNCHANGED <<_state, dirty_keys, log, exists>>
           ELSE /\ _state' = dict_set(_state, key, value)
                /\ dirty_keys' = IF key \in DOMAIN committed /\ committed[key] = value
                                 THEN dirty_keys \ {key}
                                 ELSE dirty_keys \cup {key}
                /\ last' = Call("set", key, value, "ok", "none")
                /\ UNCHANGED <<log, exists>>

\* __setitem__ without the dirty_keys.add(key).
SetItem_nodirty(key, value) ==
    /\ UNCHANGED cvars
    /\ IF PyEq(dict_get(_state, key), value)
       THEN /\ last' = Call("set", key, value, "ok", "none")
            /\ UNCHANGED <<_state, dirty_keys, log, exists>>
       ELSE IF ~isinstance_str(key)
       THEN /\ last' = Call("set", key, value, "TypeError", "none")
            /\ UNCHANGED <<_state, dirty_keys, log, exists>>
       ELSE /\ _state' = dict_set(_state, key, value)
            /\ last' = Call("set", key, value, "ok", "none")
            /\ UNCHANGED <<dirty_keys, log, exists>>

\* CensusBuildState.__setitem__ and MutableNamespace.__setitem__
SetItem(key, value) ==
    /\ UNCHANGED cvars
    /\ IF PyEq(dict_get(_state, key), value)
       THEN /\ last' = Call("set", key, value, "ok", "none")
            /\ UNCHANGED <<_state, dirty_keys, log, exists>>
       ELSE IF ~isinstance_str(key)
       THEN /\ last' = Call("set", key, value, "TypeError", "none")
            /\ UNCHANGED <<_state, dirty_keys, log, exists>>
       ELSE /\ _state' = dict_set(_state, key, value)
            /\ dirty_keys' = dirty_keys \cup {key}
            /\ last' = Call("set", key, value, "ok", "none")
            /\ UNCHANGED <<log, exists>>

\* commit opening the log before it looks at the dirty set.
Commit_touch(openOk) ==
    /\ UNCHANGED cvars
    /\ LET dirty == [k \in dirty_keys |-> _state[k]]
       IN  /\ dirty_keys' = {}
           /\ IF openOk
              THEN /\ dirty_keys # {} => Len(log) < MaxLog
                   /\ log' = IF dirty_keys # {} THEN Append(log, yaml_dump(dirty))
                             ELSE log
                   /\ exists' = TRUE
                   /\ last' = Call("commit", "None", "None", "ok",
                                   IF dirty_keys # {} THEN "append" ELSE "none")
              ELSE /\ last' = Call("commit", "None", "None", "OSError", "open")
                   /\ UNCHANGED <<log, exists>>
           /\ UNCHANGED _state

\* commit opening the log with mode="w".
Commit_truncate(openOk) ==
    /\ UNCHANGED cvars
    /\ IF dirty_keys # {}
       THEN LET dirty == [k \in dirty_keys |-> _state[k]]
            IN  /\ dirty_keys' = {}
                /\ IF openOk
                   THEN /\ Len(log) < MaxLog
                        /\ log' = <<yaml_dump(dirty)>>
                        /\ exists' = TRUE
                        /\ last' = Call("commit", "None", "None", "ok", "append")
                   ELSE /\ last' = Call("commit", "None", "None", "OSError", "open")
                        /\ UNCHANGED <<log, exists>>
                /\ UNCHANGED _state
       ELSE /\ openOk
            /\ last' = Call("commit", "None", "None", "ok", "none")
            /\ UNCHANGED <<_state, dirty_keys, log, exists>>

\* CensusBuildState.commit; openOk tells whether open(file, mode="a")
\* succeeds.
Commit(openOk) ==
    /\ UNCHANGED cvars
    /\ IF dirty_keys # {}
       THEN LET dirty == [k \in dirty_keys |-> _state[k]]
            IN  /\ dirty_keys' = {}
                /\ IF openOk
                   THEN /\ Len(log) < MaxLog
                        /\ log' = Append(log, yaml_dump(dirty))
                        /\ exists' = TRUE
                        /\ last' = Call("commit", "None", "None", "ok", "append")
                   ELSE /\ last' = Call("commit", "None", "None", "OSError", "open")
                        /\ UNCHANGED <<log, exists>>
                /\ UNCHANGED _state
       ELSE /\ openOk
            /\ last' = Call("commit", "None", "None", "ok", "none")
            /\ UNCHANGED <<_state, dirty_keys, log, exists>>

\* What CensusBuildState.load returns for the log file: the error raised,
\* or the mapping of the new state.
load(fileExists, file) ==
    IF ~fileExists THEN <<"FileNotFoundError", EmptyDict>>
    ELSE LET documents == yaml_safe_load_all(file)
             kwargs == reduce_update(documents, EmptyDict)
         IN  IF "'self'" \in DOMAIN kwargs
             THEN <<"TypeError", EmptyDict>>
             ELSE <<"ok", kwargs>>

\* load without the clearing of the dirty keys the constructor set.
Load_dirty ==
    /\ UNCHANGED cvars
    /\ LET r == load(exists, log)
       IN  IF r[1] = "ok"
           THEN /\ _state' = r[2]
                /\ dirty_keys' = DOMAIN r[2]
                /\ last' = Call("load", "None", "None", "ok", "read")
                /\ UNCHANGED <<log, exists>>
           ELSE /\ last' = Call("load", "None", "None", r[1], "read")
                /\ UNCHANGED <<_state, dirty_keys, log, exists>>

\* CensusBuildState.load: the loaded state replaces the state in use.
Load ==
    /\ UNCHANGED cvars
    /\ LET r == load(exists, log)
       IN  IF r[1] = "ok"
           THEN /\ _state' = r[2]
                /\ dirty_keys' = {}
                /\ last' = Call("load", "None", "None", "ok", "read")
                /\ UNCHANGED <<log, exists>>
           ELSE /\ last' = Call("load", "None", "None", r[1], "read")
                /\ UNCHANGED <<_state, dirty_keys, log, exists>>

Next ==
    \/ \E in \in SetInputs : SetItem(in[1], in[2])
    \/ \E openOk \in BOOLEAN : Commit(openOk)
    \/ Load

Spec == Init /\ [][Next]_vars

\* A run of set and commit calls on an empty state and an empty, present log
\* file, every commit succeeding.
InitJournal ==
    /\ _state = EmptyDict
    /\ dirty_keys = {}
    /\ log = <<>>
    /\ exists = TRUE
    /\ last = Call("init", "None", "None", "ok", "none")
    /\ ConfigInit

NextJournal ==
    \/ \E in \in SetInputs : SetItem(in[1], in[2])
    \/ Commit(TRUE)

SpecJournal == InitJournal /\ [][NextJournal]_vars

\* Configs loaded and the paths of the build args read, the state untouched.
NextConfig ==
    \/ \E doc \in ConfigDocs : ConfigLoad(doc)
    \/ SomaPath
    \/ H5adsPath

SpecConfig == Init /\ [][NextConfig]_vars

\* A state created empty, with pairs or by load, then set and committed, every
\* commit succeeding, and loaded again at any time.
NextReplay ==
    \/ \E in \in SetInputs : SetItem(in[1], in[2])
    \/ Commit(TRUE)
    \/ Load

SpecReplay == Init /\ [][NextReplay]_vars

\* A run of set and commit calls, a commit failing or not.
NextSetCommit ==
    \/ \E in \in SetInputs : SetItem(in[1], in[2])
    \/ \E openOk \in BOOLEAN : Commit(openOk)

SpecSetCommit == Init /\ [][NextSetCommit]_vars

\* ---------------------------------------------------------------- claims

\* The mapping a log stands for: each key of any record, with the value of
\* the last record that has the key.
LastWins(documents) ==
    LET has(k) == {i \in 1..Len(documents) : k \in DOMAIN documents[i]}
        latest(k) == CHOOSE i \in has(k) : \A j \in has(k) : j <= i
    IN  [k \in UNION {DOMAIN documents[i] : i \in 1..Len(documents)} |->
            documents[latest(k)][k]]

\* C1: after each commit of a run of set and successful commit calls that
\* started empty on an empty log, loading the log succeeds and gives exactly
\* the in-memory mapping.
C1_ReplayEqualsMemory ==
    last.op = "commit" => load(exists, log) = <<"ok", _state>>

\* C2: after set(k, v) with a string key k, get(k) returns v.
C2_SetThenGet ==
    (last.op = "set" /\ isinstance_str(last.key)) =>
        /\ getitem(last.key)[1] = "ok"
        /\ PyEq(getitem(last.key)[2], last.val)

\* C3: a commit that fails to open the log leaves every dirty key dirty.
C3_FailedCommitKeepsDirty ==
    [][(last'.op = "commit" /\ last'.res = "OSError")
          => dirty_keys \subseteq dirty_keys']_vars

\* C4: a successful commit with a non-empty dirty set appends exactly one
\* record, whose mapping is the dirty keys with their current in-memory
\* values, and leaves the dirty set empty.
C4_CommitRecord ==
    [][(last'.op = "commit" /\ last'.res = "ok" /\ dirty_keys # {}) =>
          /\ Len(log') = Len(log) + 1
          /\ SubSeq(log', 1, Len(log)) = log
          /\ yaml_load(log'[Len(log')]) = [k \in dirty_keys |-> _state[k]]
          /\ dirty_keys' = {}
          /\ _state' = _state]_vars

C4_Witness ==
    /\ last.op = "commit" /\ last.io = "append"
    /\ dirty_keys = {}
    /\ Cardinality(DOMAIN log[Len(log)]) = 2
    /\ \E t \in DOMAIN log[Len(log)] : log[Len(log)][t] = "'1'"

\* C5: set(k, v) with v equal to the value stored under k changes neither
\* the in-memory mapping nor the dirty set.
C5_NoOpWrite ==
    [][(/\ last'.op = "set"
        /\ last'.key \in DOMAIN _state
        /\ PyEq(_state[last'.key], last'.val)) =>
          (_state' = _state /\ dirty_keys' = dirty_keys)]_vars

\* A loaded state holding a key, the key set to its value, nothing dirty.
C5_Witness ==
    /\ last.op = "set" /\ last.res = "ok"
    /\ last.key \in DOMAIN _state
    /\ _state[last.key] = last.val
    /\ dirty_keys = {}
    /\ log # <<>>

\* C6: set(k, v) with a string key k that is absent, or holds a value
\* different from v, stores v under k and makes k dirty.
C6_NewValueStoredAndDirty ==
    [][(/\ last'.op = "set"
        /\ isinstance_str(last'.key)
        /\ (last'.key \notin DOMAIN _state
              \/ ~PyEq(_state[last'.key], last'.val))) =>
          /\ last'.key \in DOMAIN _state'
          /\ _state'[last'.key] = last'.val
          /\ last'.key \in dirty_keys']_vars

\* C7: a commit with an empty dirty set leaves the log file as it is: no
\* record appended, no file created; so does a commit that follows a commit.
C7_EmptyCommitNoIO ==
    [][(last'.op = "commit" /\ (dirty_keys = {} \/ last.op = "commit")) =>
          (log' = log /\ exists' = exists)]_vars

C7_Witness ==
    /\ last.op = "commit" /\ last.res = "ok" /\ last.io = "none"
    /\ ~exists
    /\ _state # EmptyDict

\* C8: the log is append-only: each step keeps the old records as a prefix,
\* a commit adds at most one record, set and load leave the log alone.
C8_AppendOnly ==
    [][/\ Len(log') >= Len(log)
       /\ SubSeq(log', 1, Len(log)) = log
       /\ Len(log') <= Len(log) + 1
       /\ (last'.op # "commit" => log' = log)]_vars

C8_Witness ==
    /\ last.op = "commit" /\ last.io = "append"
    /\ Len(log) = 2
    /\ log[1] # log[2]

\* C9: load of a log that exists succeeds, and its mapping has every key of
\* any record with the value of the last record that has the key.
C9_LoadIsFold ==
    (last.op = "load" /\ exists) =>
        /\ last.res = "ok"
        /\ _state = LastWins(yaml_safe_load_all(log))

\* C10: right after a load the dirty set is empty, and a commit made then
\* appends nothing.
C10_LoadIsClean ==
    /\ []((last.op = "load" /\ last.res = "ok") => dirty_keys = {})
    /\ [][(last.op = "load" /\ last.res = "ok" /\ last'.op = "commit") =>
             (log' = log /\ exists' = exists)]_vars

C10_Witness ==
    /\ last.op = "load" /\ last.res = "ok"
    /\ Cardinality(DOMAIN _state) = 2
    /\ dirty_keys = {}

\* C11: set with a key that is not a string raises TypeError, whatever the
\* value, and changes neither the mapping nor the dirty set.
C11_NonStringKeyRejected ==
    [][(last'.op = "set" /\ ~isinstance_str(last'.key)) =>
          /\ last'.res = "TypeError"
          /\ _state' = _state
          /\ dirty_keys' = dirty_keys]_vars

\* Replay of the log: the fold of its records as load computes it.
Replay == reduce_update(yaml_safe_load_all(log), EmptyDict)

\* C12: over set and commit calls the key set only grows, and every key of
\* every record of the log is a key of the replayed log.
C12_KeysNeverRemoved ==
    /\ [][DOMAIN _state \subseteq DOMAIN _state']_vars
    /\ [](\A i \in 1..Len(log) : \A t \in DOMAIN log[i] :
            yaml_load_scalar(t) \in DOMAIN Replay)

\* Two records, a key of the first one missing in the second.
C12_Witness ==
    /\ last.op = "commit" /\ last.io = "append"
    /\ Len(log) = 2
    /\ ~(DOMAIN log[1] \subseteq DOMAIN log[2])
    /\ Cardinality(DOMAIN _state) >= 2

\* The keys a config document overrides, as Python strings.
DocKeys(doc) == {yaml_load_scalar(t) : t \in DOMAIN doc.items}

\* C13: load of a mapping document, or of an empty one, gives a config that
\* has every default key, the document's value for each key of the document
\* (known to the defaults or not), the default value for every other key,
\* and nothing else; it equals the defaults when the document has no key.
C13_LoadOverridesDefaults ==
    (call.op = "load" /\ call.doc.kind \in {"mapping", "empty"}) =>
        /\ call.res = "ok"
        /\ DOMAIN config = DOMAIN CENSUS_CONFIG_DEFAULTS \cup DocKeys(call.doc)
        /\ \A t \in DOMAIN call.doc.items :
             config[yaml_load_scalar(t)] = yaml_load_scalar(call.doc.items[t])
        /\ \A k \in DOMAIN CENSUS_CONFIG_DEFAULTS \ DocKeys(call.doc) :
             config[k] = CENSUS_CONFIG_DEFAULTS[k]

\* C14: no load changes the shared defaults: a load that succeeds gives the
\* original default value to every key its document does not override, and
\* no other key.
C14_DefaultsNeverMutated ==
    /\ defaults = CENSUS_CONFIG_DEFAULTS
    /\ (call.op = "load" /\ call.res = "ok") =>
          \A k \in DOMAIN config \ DocKeys(call.doc) :
              /\ k \in DOMAIN CENSUS_CONFIG_DEFAULTS
              /\ config[k] = CENSUS_CONFIG_DEFAULTS[k]

\* An empty document loaded after a load that overrode and added keys.
C14_Witness ==
    /\ call.op = "load" /\ call.res = "ok"
    /\ call.doc.kind = "empty"
    /\ "'extra'" \in DOMAIN call.before
    /\ call.before["'verbose'"] = "2"
    /\ config = CENSUS_CONFIG_DEFAULTS

C16_DerivedPaths ==
    /\ [](call.op \in {"soma_path", "h5ads_path"} =>
            LET tag == config["'build_tag'"]
                suffix == IF call.op = "soma_path" THEN "'soma'" ELSE "'h5ads'"
            IN  IF tag \in {"'2023-05-01'", "'t'"}
                THEN call.res = "ok" /\ call.path = <<"'/w'", tag, suffix>>
                ELSE call.res = "TypeError" /\ call.path = <<>>)
    /\ [][call'.op \in {"soma_path", "h5ads_path"} =>
            UNCHANGED <<defaults, config, _state, dirty_keys, log, exists>>]_vars

\* A path refused for the date a plain 2023-01-01 in the document loads as.
C16_Witness ==
    /\ call.op = "soma_path" /\ call.res = "TypeError"
    /\ config["'build_tag'"] = "datetime.date(2023, 1, 1)"
    /\ "'extra'" \in DOMAIN config

\* C17: with every commit successful, each key that is not dirty has in
\* memory the value the replayed log has for it.
C17_CleanKeysMatchReplay ==
    \A k \in DOMAIN _state \ dirty_keys :
        k \in DOMAIN Replay /\ Replay[k] = _state[k]

\* A loaded or committed key that is clean beside a key that is dirty.
C17_Witness ==
    /\ last.op = "set"
    /\ dirty_keys # {}
    /\ DOMAIN _state \ dirty_keys # {}
    /\ \E k \in dirty_keys : k \in DOMAIN Replay /\ Replay[k] # _state[k]

\* C18: a state constructed with pairs starts with every key dirty (none for
\* no pairs), and its first commit appends one record holding all the pairs.
C18_InitialKeysDirty ==
    /\ [](last.op = "init" => dirty_keys = DOMAIN _state)
    /\ [][(/\ last.op = "init" /\ _state # EmptyDict
           /\ last'.op = "commit" /\ last'.res = "ok") =>
             (Len(log') = 1 /\ yaml_load(log'[1]) = _state)]_vars

C18_Witness ==
    /\ last.op = "init"
    /\ _state # EmptyDict
    /\ dirty_keys = DOMAIN _state

\* C19: the dirty keys are keys of the in-memory mapping, so commit reads
\* no missing key.
C19_DirtyKeysArePresent ==
    dirty_keys \subseteq DOMAIN _state

\* A key that is no string was refused after a commit failed, with a key
\* dirty again.
C19_Witness ==
    /\ last.op = "set" /\ last.res = "TypeError"
    /\ dirty_keys # {}
    /\ DOMAIN _state \ dirty_keys # {}
    /\ ~exists

\* C20: no set takes a key out of the dirty set, also not the set that
\* writes back the value the log holds for the key; and the next successful
\* commit appends a record with each dirty key and its value, also when the
\* replayed log already gives the key that value.
C20_DirtyPerWrite ==
    [][/\ last'.op = "set" => dirty_keys \subseteq dirty_keys'
       /\ \A k \in dirty_keys :
            (/\ k \in DOMAIN Replay /\ Replay[k] = _state[k]
             /\ last'.op = "commit" /\ last'.res = "ok") =>
                /\ Len(log') = Len(log) + 1
                /\ k \in DOMAIN yaml_load(log'[Len(log')])
                /\ yaml_load(log'[Len(log')])[k] = _state[k]]_vars

\* The second record repeats a value of the first one.
C20_Witness ==
    /\ last.op = "commit" /\ last.io = "append"
    /\ Len(log) = 2
    /\ \E t \in DOMAIN log[1] \cap DOMAIN log[2] : log[1][t] = log[2][t]

====
